---- MODULE Spec2Model ----
(***************************************************************************)
(* A model of src/utils/cannyLaneDetector.py: the helperFunction class     *)
(* (createGaussianKernel) and the cannyLaneDetector class (__init__,       *)
(* readImg, rgbToGrayScratch, rgbToGray, applyGaussianBlurScratch).        *)
(*                                                                         *)
(* Arrays live on a heap: an object's identity is its key in `heap`, so    *)
(* that "a new object" and "the same object" are different things.  A      *)
(* caller keeps its input images and the result of the last call; a result *)
(* it does not pass on is released, and its identity may be used again.    *)
(* Real numbers are held in fixed point: a value v of an array whose `den` *)
(* is d stands for v / d.  sigma is the rational s / SigmaDen.             *)
(***************************************************************************)
EXTENDS Integers, Sequences, FiniteSets, TLC

\* ---------------------------------------------------------------- bounds

\* sigma ranges over s / SigmaDen for s in -SigmaDen .. MaxSigmaNum.
MaxSigmaNum == 5
\* Resolution of sigma: sigma = s / SigmaDen.
SigmaDen == 2
\* Fixed-point resolution of the kernel's floating-point values.
Scale == 10000

\* ------------------------------------------------------ program constants

\* The luminance weights of rgbToGrayScratch, in ten-thousandths.
WeightR == 2989
WeightG == 5870
WeightB == 1140
\* The denominator of the luminance weights (four decimal places).
WeightDen == 10000
\* The channel indices rgbToGrayScratch reads (0-based, as in the source).
IdxR == 0
IdxG == 1
IdxB == 3
\* np.pi, in ten-thousandths.
PiNum == 31416
\* The luminance weights of cv.COLOR_BGR2GRAY, in thousandths.
CvWeightR == 299
CvWeightG == 587
CvWeightB == 114
CvWeightDen == 1000

\* ------------------------------------------------------------ the values

\* Python's None, as an object reference.
None == 0

SigmaNums == (0 - SigmaDen) .. MaxSigmaNum

NoSigma == 0 - 1000

\* An n-dimensional array value: shape, element type, fixed-point
\* denominator and the nested data.
NdArray(shape, dtype, den, data) ==
    [kind |-> "ndarray", shape |-> shape, dtype |-> dtype, den |-> den, data |-> data]

PyList(shape, data) ==
    [kind |-> "list", shape |-> shape, dtype |-> "int", den |-> 1, data |-> data]

ndim(a) == Len(a.shape)

\* The images a caller holds before any call: ids 1 .. NumInputs.
InputImages ==
    << NdArray(<<2, 3>>, "uint8", 1, << <<0, 128, 255>>, <<255, 7, 0>> >>),
       NdArray(<<1, 2, 3>>, "uint8", 1, << << <<10, 20, 30>>, <<255, 255, 255>> >> >>),
       NdArray(<<1, 2, 4>>, "uint8", 1, << << <<10, 20, 30, 40>>, <<0, 0, 0, 200>> >> >>),
       NdArray(<<1, 2, 2>>, "uint8", 1, << << <<10, 20>>, <<30, 40>> >> >>),
       NdArray(<<3>>, "uint8", 1, <<1, 2, 3>>),
       NdArray(<<1, 1, 1, 3>>, "uint8", 1, << << << <<1, 2, 3>> >> >> >>),
       NdArray(<<1, 2>>, "float32", 1, << <<9, 8>> >>),
       PyList(<<1, 2>>, << <<5, 6>> >>) >>

NumInputs == Len(InputImages)

\* The image files cv.imread can decode (BGR, 3 channels), by path.
Paths == {"road.png", "missing.png"}

Decodable(path) == path = "road.png"

FileImage(path) ==
    NdArray(<<1, 2, 3>>, "uint8", 1, << << <<3, 2, 1>>, <<200, 100, 50>> >> >>)

\* The values a caller passes for the three thresholds.
Thresholds == {10, 50}

\* The values a caller passes for gradThresh.
GradThresholds == {30}

\* --------------------------------------------------------------- results

\* What a call did: the heap after it, whether it returned or raised, the
\* exception's type, and the returned reference (None when it raised).
Returned(h, ref) == [heap |-> h, outcome |-> "return", err |-> "", ret |-> ref]

Raised(h, e) == [heap |-> h, outcome |-> "raise", err |-> e, ret |-> None]

\* The least identity no live object has.
FreshId(h) ==
    CHOOSE i \in 1 .. Cardinality(DOMAIN h) + 1 :
        i \notin DOMAIN h /\ \A j \in 1 .. i - 1 : j \in DOMAIN h

\* A new object, at an identity no live object has.
New(h, obj) ==
    LET id == FreshId(h)
    IN  Returned([i \in DOMAIN h \cup {id} |-> IF i = id THEN obj ELSE h[i]], id)

\* ------------------------------------------------- helperFunction (kernel)

\* np.ceil of n / d, d > 0.
Ceil(n, d) == 0 - ((0 - n) \div d)

kernelSizeNoCeil(s) == 2 * (s \div SigmaDen) + 1

\* kernel_size = int(2 * np.ceil(sigma) + 1)
kernelSize(s) == 2 * Ceil(s, SigmaDen) + 1

\* center = kernel_size // 2
center(k) == k \div 2

\* a / b rounded to the nearest, b > 0, a >= 0: one floating-point division.
DivRound(a, b) == (2 * a + b) \div (2 * b)

\* np.exp(-q / Scale) in fixed point, q >= 0: the Taylor polynomial on
\* [0, 1/4], and exp(-a-b) = exp(-a) * exp(-b) above it.  It underflows to 0.
RECURSIVE ExpNeg(_)
ExpNeg(q) ==
    IF q * 4 <= Scale
    THEN LET t2 == DivRound(q * q, Scale)
             t3 == DivRound(t2 * q, Scale)
             t4 == DivRound(t3 * q, Scale)
         IN  Scale - q + DivRound(t2, 2) - DivRound(t3, 6) + DivRound(t4, 24)
    ELSE LET a == ExpNeg(q \div 2)
             b == IF q % 2 = 0 THEN a ELSE ExpNeg(q - q \div 2)
         IN  DivRound(a * b, Scale)

\* 1 / (2 * np.pi * sigma ** 2)
Coef(s) == DivRound(Scale * SigmaDen * SigmaDen * 10000, 2 * PiNum * s * s)

\* (dx ** 2 + dy ** 2) / (2 * sigma ** 2)
Exponent(dx, dy, s) ==
    DivRound((dx * dx + dy * dy) * SigmaDen * SigmaDen * Scale, 2 * s * s)

\* kernel[y, x] before normalisation (0-based y, x).
kernelEntry(y, x, k, s) ==
    DivRound(Coef(s) * ExpNeg(Exponent(x - center(k), y - center(k), s)), Scale)

RECURSIVE SumSeq(_)
SumSeq(q) == IF q = <<>> THEN 0 ELSE Head(q) + SumSeq(Tail(q))

\* np.sum of a 2-dimensional array's data.
npSum(rows) == SumSeq([i \in 1 .. Len(rows) |-> SumSeq(rows[i])])

normaliseSkipped(rows) == rows

\* kernel /= np.sum(kernel)
normalise(rows) ==
    LET total == npSum(rows)
    IN  [y \in 1 .. Len(rows) |->
            [x \in 1 .. Len(rows[y]) |-> DivRound(rows[y][x] * Scale, total)]]

\* The body of createGaussianKernel for sigma = s / SigmaDen, a float: the
\* exception it raises, or the array it returns.
gaussianKernel(s) ==
    LET k == kernelSize(s)
    IN  IF k < 0 THEN [err |-> "ValueError", value |-> <<>>]          \* np.zeros((-1, -1))
        ELSE IF s = 0 THEN [err |-> "ZeroDivisionError", value |-> <<>>] \* 1 / (2 * pi * 0.0)
        ELSE [err |-> "",
              value |-> NdArray(<<k, k>>, "float64", Scale,
                  normalise([y \in 1 .. k |->
                                [x \in 1 .. k |-> kernelEntry(y - 1, x - 1, k, s)]]))]

\* gaussianKernel is deterministic: its results, computed once per sigma.
KernelTable == [s \in SigmaNums |-> gaussianKernel(s)]

\* helperFunction.createGaussianKernel(sigma): a new array at every call.
createGaussianKernel(h, s) ==
    IF KernelTable[s].err # "" THEN Raised(h, KernelTable[s].err)
    ELSE New(h, KernelTable[s].value)

\* ------------------------------------------------------ cannyLaneDetector

\* cannyLaneDetector.__init__: the three attributes it stores.  It checks
\* nothing, so it returns for every triple.
init(g, f, s) ==
    [gradThresh |-> g, firstThresh |-> f, secondThresh |-> s,
     outcome |-> "return", err |-> ""]

\* cv.imread(path): a new image, or None for a file it cannot decode.
imread(h, path) ==
    IF Decodable(path) THEN New(h, FileImage(path)) ELSE Returned(h, None)

\* cannyLaneDetector.readImg: a None from cv.imread is raised as
\* FileNotFoundError, caught, printed, and None is returned.
readImg(h, path) ==
    LET r == imread(h, path)
    IN  IF r.ret = None THEN Returned(r.heap, None) ELSE r

astypeNoCopy(h, a, ref, dtype) ==
    IF ref # None /\ a.dtype = dtype THEN Returned(h, ref)
    ELSE New(h, [a EXCEPT !.kind = "ndarray", !.dtype = dtype])

\* ndarray.astype(dtype) with its default copy=True: always a new array.
\* `a` is the array's value and `ref` its identity (None for a temporary).
astype(h, a, ref, dtype) == New(h, [a EXCEPT !.kind = "ndarray", !.dtype = dtype])

\* img[:, :, c] is an IndexError unless c is an index of the last axis.
ChannelOk(a, c) == c < a.shape[3]

\* 0.2989 * r + 0.5870 * g + 0.1140 * b, in units of 1 / (den * WeightDen).
weightedGray(a) ==
    [y \in 1 .. a.shape[1] |->
        [x \in 1 .. a.shape[2] |->
            WeightR * a.data[y][x][IdxR + 1] + WeightG * a.data[y][x][IdxG + 1]
                + WeightB * a.data[y][x][IdxB + 1]]]

\* cannyLaneDetector.rgbToGrayScratch(img); ref = None is a non-array input.
rgbToGrayScratch(h, ref) ==
    IF ref = None THEN Raised(h, "TypeError")
    ELSE LET a == h[ref]
         IN  IF ndim(a) = 3
             THEN IF ChannelOk(a, IdxR) /\ ChannelOk(a, IdxG) /\ ChannelOk(a, IdxB)
                  THEN astype(h, NdArray(<<a.shape[1], a.shape[2]>>, "float64",
                                         a.den * WeightDen, weightedGray(a)),
                              None, "float32")
                  ELSE Raised(h, "IndexError")
             ELSE IF ndim(a) = 2
             THEN astype(h, a, IF a.kind = "list" THEN None ELSE ref, "float32")
             ELSE Raised(h, "ValueError")

\* cv.cvtColor(img, cv.COLOR_BGR2GRAY): a new 2-dimensional image of the
\* input's type for a 3- or 4-channel uint8 / float32 array, cv.error (or a
\* TypeError for a list) otherwise; uint8 results are rounded.  Channel 0 is blue, channel 2 is red.
cvtColor(h, ref) ==
    LET a == h[ref]
    IN  IF a.kind # "ndarray" THEN Raised(h, "TypeError")
        ELSE IF ndim(a) = 3 /\ a.shape[3] \in {3, 4} /\ a.dtype \in {"uint8", "float32"}
        THEN LET Y(p) == CvWeightB * p[1] + CvWeightG * p[2] + CvWeightR * p[3]
             IN  New(h, NdArray(<<a.shape[1], a.shape[2]>>, a.dtype,
                     IF a.dtype = "uint8" THEN a.den ELSE a.den * CvWeightDen,
                     [y \in 1 .. a.shape[1] |->
                         [x \in 1 .. a.shape[2] |->
                             IF a.dtype = "uint8"
                             THEN DivRound(Y(a.data[y][x]), CvWeightDen)  \* saturate_cast
                             ELSE Y(a.data[y][x])]]))
        ELSE Raised(h, "cv.error")

\* cannyLaneDetector.rgbToGray(img): every exception raised in the try block
\* (the ValueError for None, cv.error, any other) is caught and printed, and
\* the method then falls off its end, which returns None.
rgbToGray(h, ref) ==
    LET r == IF ref = None THEN Raised(h, "ValueError") ELSE cvtColor(h, ref)
    IN  IF r.outcome = "raise" THEN Returned(r.heap, None) ELSE r

\* cannyLaneDetector.applyGaussianBlurScratch(img, sigma): it returns the
\* kernel it built.
applyGaussianBlurScratch(h, ref, s) ==
    IF ref = None THEN Raised(h, "AttributeError")     \* None.ndim
    ELSE IF h[ref].kind # "ndarray" THEN Raised(h, "AttributeError")  \* list.ndim
    ELSE IF ndim(h[ref]) # 2 THEN Raised(h, "ValueError")
    ELSE createGaussianKernel(h, s)

\* ------------------------------------------------------------- the state

VARIABLES
    gradThresh,    \* self.gradThresh
    firstThresh,   \* self.firstThresh
    secondThresh,  \* self.secondThresh
    heap,          \* the arrays alive, by identity
    call           \* the last call: operation, arguments, outcome, result

vars == <<gradThresh, firstThresh, secondThresh, heap, call>>

Call(op, ref, s, path, r) ==
    [op |-> op, arg |-> ref, sigma |-> s, path |-> path,
     outcome |-> r.outcome, err |-> r.err, ret |-> r.ret]

\* The arguments a caller can pass for an image: None or any live object.
Refs == {None} \cup DOMAIN heap

\* The heap a call starts from: the caller's images and the argument; the
\* results the caller does not pass on are released.
Release(h, ref) == [i \in (1 .. NumInputs) \cup ({ref} \ {None}) |-> h[i]]

Init ==
    \E g \in GradThresholds, f \in Thresholds, s \in Thresholds :
        LET d == init(g, f, s)
        IN  /\ gradThresh = d.gradThresh
            /\ firstThresh = d.firstThresh
            /\ secondThresh = d.secondThresh
            /\ heap = [i \in 1 .. NumInputs |-> InputImages[i]]
            /\ call = Call("__init__", None, NoSigma, "", [outcome |-> d.outcome, err |-> d.err, ret |-> None])

Do(op, ref, s, path, r) ==
    /\ heap' = r.heap
    /\ call' = Call(op, ref, s, path, r)
    /\ UNCHANGED <<gradThresh, firstThresh, secondThresh>>

ReadImg ==
    \E path \in Paths :
        Do("readImg", None, NoSigma, path, readImg(Release(heap, None), path))

RgbToGrayScratch ==
    \E ref \in Refs :
        Do("rgbToGrayScratch", ref, NoSigma, "", rgbToGrayScratch(Release(heap, ref), ref))

RgbToGray ==
    \E ref \in Refs :
        Do("rgbToGray", ref, NoSigma, "", rgbToGray(Release(heap, ref), ref))

ApplyGaussianBlurScratch ==
    \E ref \in Refs, s \in SigmaNums :
        Do("applyGaussianBlurScratch", ref, s, "", applyGaussianBlurScratch(Release(heap, ref), ref, s))

CreateGaussianKernel ==
    \E s \in SigmaNums :
        Do("createGaussianKernel", None, s, "", createGaussianKernel(Release(heap, None), s))

Next ==
    \/ ReadImg
    \/ RgbToGrayScratch
    \/ RgbToGray
    \/ ApplyGaussianBlurScratch
    \/ CreateGaussianKernel

Spec == Init /\ [][Next]_vars

\* ------------------------------------------------------------ the claims

\* The last call was `op` and it returned an array.
ReturnedArray(op) == call.op = op /\ call.outcome = "return" /\ call.ret # None

\* The last call's image argument, an array or a list (not None).
ArgIsImage == call.arg # None

\* |a|
Abs(a) == IF a < 0 THEN 0 - a ELSE a

\* C1: for every input of shape height x width x 3, rgbToGrayScratch returns
\* a height x width grid whose value at each pixel is
\* 0.2989*R + 0.5870*G + 0.1140*B, with R, G, B the channels 0, 1 and 2.
C1_GrayFromChannels012 ==
    (call.op = "rgbToGrayScratch" /\ ArgIsImage /\ ndim(heap[call.arg]) = 3
        /\ heap[call.arg].shape[3] = 3)
    => /\ ReturnedArray("rgbToGrayScratch")
       /\ LET a == heap[call.arg]
              g == heap[call.ret]
          IN  /\ g.shape = <<a.shape[1], a.shape[2]>>
              /\ \A y \in 1 .. a.shape[1], x \in 1 .. a.shape[2] :
                    g.data[y][x] * 10000 * a.den
                        = g.den * (2989 * a.data[y][x][1] + 5870 * a.data[y][x][2]
                                     + 1140 * a.data[y][x][3])

\* C2: rgbToGrayScratch raises ValueError for every input whose number of
\* dimensions is neither 2 nor 3, and for every 3-dimensional input whose
\* last axis does not have exactly 3 channels; it returns no grid for them.
C2_InvalidDimensionIsValueError ==
    (call.op = "rgbToGrayScratch" /\ ArgIsImage
        /\ \/ ndim(heap[call.arg]) \notin {2, 3}
           \/ ndim(heap[call.arg]) = 3 /\ heap[call.arg].shape[3] # 3)
    => call.outcome = "raise" /\ call.err = "ValueError" /\ call.ret = None

\* C3: for every 2-dimensional grid and every sigma > 0,
\* applyGaussianBlurScratch returns a grid of the shape of its input.
C3_BlurKeepsShape ==
    (call.op = "applyGaussianBlurScratch" /\ ArgIsImage
        /\ heap[call.arg].kind = "ndarray" /\ ndim(heap[call.arg]) = 2 /\ call.sigma > 0)
    => ReturnedArray("applyGaussianBlurScratch")
       /\ heap[call.ret].shape = heap[call.arg].shape

\* The kernel a call of createGaussianKernel with sigma > 0 is about.
KernelCall == call.op = "createGaussianKernel" /\ call.sigma > 0

\* C4: for every sigma > 0, createGaussianKernel returns a square kernel of
\* side k = 2*ceil(sigma) + 1, odd and at least 3, centred at index (k-1)/2
\* in both axes: the kernel peaks there and is symmetric about it.
C4_KernelSide ==
    KernelCall
    => /\ ReturnedArray("createGaussianKernel")
       /\ LET K == heap[call.ret]
              k == K.shape[1]
              c == (k - 1) \div 2
          IN  /\ K.shape = <<k, k>>
              /\ k % 2 = 1 /\ k >= 3
              \* c = ceil(sigma): c - 1 < sigma <= c
              /\ (c - 1) * SigmaDen < call.sigma /\ call.sigma <= c * SigmaDen
              /\ Len(K.data) = k /\ \A y \in 1 .. k : Len(K.data[y]) = k
              /\ \A y \in 1 .. k, x \in 1 .. k :
                    /\ K.data[y][x] <= K.data[c + 1][c + 1]
                    /\ K.data[y][x] = K.data[2 * c + 2 - y][2 * c + 2 - x]

\* C4's case: a 5 x 5 kernel (1 < sigma <= 2) was returned.
C4_Witness ==
    KernelCall /\ ReturnedArray("createGaussianKernel") /\ heap[call.ret].shape = <<5, 5>>

\* C5: for every sigma > 0, the entries of the kernel createGaussianKernel
\* returns are non-negative and sum to 1.0 within the rounding of its k*k
\* divisions (half a unit of the last place each).
C5_KernelSumsToOne ==
    KernelCall
    => /\ ReturnedArray("createGaussianKernel")
       /\ LET K == heap[call.ret]
              k == Len(K.data)
              total == SumSeq([y \in 1 .. k |-> SumSeq(K.data[y])])
          IN  /\ \A y \in 1 .. k, x \in 1 .. k : K.data[y][x] >= 0
              /\ 2 * Abs(total - K.den) <= k * k

\* C5's case: a returned kernel with weight off its centre.
C5_Witness ==
    /\ KernelCall /\ ReturnedArray("createGaussianKernel")
    /\ heap[call.ret].data[1][1] > 0
    /\ heap[call.ret].data[1][1] < heap[call.ret].data[2][2]

\* C6: createGaussianKernel fails for every sigma <= 0 and returns no kernel;
\* so does applyGaussianBlurScratch called with a 2-dimensional grid.
C6_NonPositiveSigmaFails ==
    (/\ call.sigma <= 0
     /\ \/ call.op = "createGaussianKernel"
        \/ /\ call.op = "applyGaussianBlurScratch" /\ ArgIsImage
           /\ heap[call.arg].kind = "ndarray" /\ ndim(heap[call.arg]) = 2)
    => call.outcome = "raise" /\ call.ret = None

\* C7: a failure inside rgbToGray is raised to the caller: rgbToGray never
\* completes normally with None, neither for a None image nor for an image
\* the conversion rejects.
C7_RgbToGrayNeverSwallows ==
    call.op = "rgbToGray" => ~(call.outcome = "return" /\ call.ret = None)

\* readImg returns None, raising nothing, for a path that cannot be loaded,
\* and the loaded pixel grid for one that can.
ReadImgDegrades ==
    call.op = "readImg"
    => /\ call.outcome = "return"
       /\ ~Decodable(call.path) => call.ret = None
       /\ Decodable(call.path) => call.ret # None /\ heap[call.ret] = FileImage(call.path)

\* C8: readImg is the only operation that degrades gracefully: it returns
\* None, raising nothing, for a path that cannot be loaded and the loaded
\* grid otherwise, and no other operation completes normally with None.
C8_OnlyReadImgDegrades ==
    /\ ReadImgDegrades
    /\ call.op \notin {"readImg", "__init__"} => ~(call.outcome = "return" /\ call.ret = None)

\* C9: no detector exists whose stored lower threshold is greater than or
\* equal to its stored upper threshold: construction with
\* firstThresh >= secondThresh fails.
C9_ThresholdsOrdered == firstThresh < secondThresh

\* C10: no call changes gradThresh, firstThresh or secondThresh, no call
\* changes the grid passed to it (nor any image the caller holds), and the
\* grid a call returns is a new object: not its input and no other live one.
C10_Frame ==
    [][/\ gradThresh' = gradThresh
       /\ firstThresh' = firstThresh
       /\ secondThresh' = secondThresh
       /\ \A i \in 1 .. NumInputs : heap'[i] = heap[i]
       /\ call'.arg # None => heap'[call'.arg] = heap[call'.arg]
       /\ call'.ret # None =>
             /\ call'.ret # call'.arg
             /\ call'.ret \notin DOMAIN Release(heap, call'.arg)]_vars

\* C10's case: the 2-dimensional pass-through of rgbToGrayScratch, given a
\* float32 grid, returned another object with the same pixels.
C10_Witness ==
    /\ ReturnedArray("rgbToGrayScratch") /\ ArgIsImage
    /\ heap[call.arg].kind = "ndarray" /\ heap[call.arg].dtype = "float32"
    /\ ndim(heap[call.arg]) = 2
    /\ call.ret # call.arg
    /\ heap[call.ret].data = heap[call.arg].data
    /\ gradThresh = 30

====
